---- MODULE Spec2Model ----
(***************************************************************************)
(* CoNLL-U parser and serializer of udtube (udtube/data/conllu.py).        *)
(*                                                                         *)
(* A string is a sequence of one-character strings.  A Token is a function *)
(* from field names to strings.  An ordered dict (the metadata) is a       *)
(* sequence of [key, value] records with pairwise distinct keys.  An       *)
(* Optional[x] is <<>> (None) or <<x>>.                                    *)
(***************************************************************************)
EXTENDS Integers, Sequences, FiniteSets, TLC

VARIABLES
    source,    \* content of the file parse_from_path reads
    handle,    \* the part of the file that has not been read yet
    file,      \* "unopened", "open" or "closed"
    pc,        \* position of the generator parse_from_path/_parse_from_handle
    metadata,  \* _parse_from_handle: the metadata accumulator
    tokens,    \* _parse_from_handle: the tokens accumulator
    emitted,   \* the TokenLists yielded to the caller so far
    unit,      \* the TokenList the caller serializes
    text,      \* Optional: what unit.serialize() returned
    parsed,    \* Optional: what parse_from_string returned
    line,      \* the argument of _parse_token
    token,     \* Optional: what _parse_token returned
    aliased,   \* index of the emitted TokenList whose metadata attribute is
               \* the very dict the accumulator names, 0 when there is none
    other      \* Optional: a second iteration the caller holds, suspended

vars == <<source, handle, file, pc, metadata, tokens, emitted,
          unit, text, parsed, line, token, aliased, other>>

-----------------------------------------------------------------------------
(* Bounds of the model. *)

MaxLines == 4
MaxTokens == 2
MaxMeta == 2
MaxCols == 11
MaxLineLen == 4

-----------------------------------------------------------------------------
(* Characters and the str methods the parser calls. *)

TAB == "\t"
NL == "\n"
SP == " "
FF == "\f"
Whitespace == {SP, TAB, NL, FF}

\* Characters at which str.splitlines() ends a line: the newline, and
\* others, of which the form feed stands here, that do not end a line of a
\* file.
LineBreaks == {NL, FF}

None == <<>>
Some(x) == <<x>>

Min(a, b) == IF a < b THEN a ELSE b

\* Index of the first occurrence of character c in s, 0 when there is none.
Find(s, c) ==
    IF \E i \in 1..Len(s) : s[i] = c
    THEN CHOOSE i \in 1..Len(s) : s[i] = c /\ \A j \in 1..(i - 1) : s[j] # c
    ELSE 0

\* Length of the longest run of whitespace of s that starts at index i.
WsRun(s, i) ==
    LET stops == {j \in i..Len(s) : s[j] \notin Whitespace}
    IN  IF stops = {} THEN Len(s) - i + 1
        ELSE (CHOOSE j \in stops : \A k \in stops : j <= k) - i

\* str.strip()
strip(s) ==
    LET keep == {i \in 1..Len(s) : s[i] \notin Whitespace}
    IN  IF keep = {} THEN <<>>
        ELSE SubSeq(s, CHOOSE i \in keep : \A k \in keep : i <= k,
                       CHOOSE i \in keep : \A k \in keep : i >= k)

\* str.split(sep) for a one-character separator: always at least one piece.
RECURSIVE split(_, _)
split(s, sep) ==
    LET i == Find(s, sep)
    IN  IF i = 0 THEN <<s>>
        ELSE <<SubSeq(s, 1, i - 1)>> \o split(SubSeq(s, i + 1, Len(s)), sep)

\* str.splitlines(): the line ends are dropped, and a final line end opens
\* no further line.
RECURSIVE splitlines(_)
splitlines(s) ==
    LET breaks == {j \in 1..Len(s) : s[j] \in LineBreaks}
        i == IF breaks = {} THEN 0
             ELSE CHOOSE j \in breaks : \A k \in breaks : j <= k
    IN  IF s = <<>> THEN <<>>
        ELSE IF i = 0 THEN <<s>>
        ELSE <<SubSeq(s, 1, i - 1)>> \o splitlines(SubSeq(s, i + 1, Len(s)))

\* sep.join(parts)
RECURSIVE join(_, _)
join(sep, parts) ==
    IF parts = <<>> THEN <<>>
    ELSE IF Len(parts) = 1 THEN parts[1]
    ELSE parts[1] \o sep \o join(sep, Tail(parts))

\* Iterating a text file: the next line, its line end included.
readline(h) ==
    LET i == Find(h, NL)
    IN  IF i = 0 THEN h ELSE SubSeq(h, 1, i)

-----------------------------------------------------------------------------
(* The schema and the line classifier. *)

_fieldnames ==
    <<"id", "form", "lemma", "upos", "xpos", "feats", "head", "deprel",
      "deps", "misc">>

\* The optional group (\s+=\s+(.*))? applied to the whole of rest.
GroupMatches(rest) ==
    LET w1 == WsRun(rest, 1)
    IN  /\ w1 >= 1
        /\ w1 + 2 <= Len(rest)
        /\ rest[w1 + 1] = "="
        /\ WsRun(rest, w1 + 2) >= 1
        /\ NL \notin {rest[i] : i \in (w1 + 2 + WsRun(rest, w1 + 2))..Len(rest)}

GroupValue(rest) ==
    LET w1 == WsRun(rest, 1)
    IN  SubSeq(rest, w1 + 2 + WsRun(rest, w1 + 2), Len(rest))

\* A line that starts with "#" taken as a comment whether or not whitespace
\* follows the "#".
MaybeParseMetadataLoose(ln) ==
    IF Len(ln) < 2 \/ ln[1] # "#" THEN None
    ELSE
        LET w == WsRun(ln, 2)
            body == SubSeq(ln, 2 + w, Len(ln))
            Rest(n) == SubSeq(body, n + 1, Len(body))
            ok == {n \in 1..Len(body) : Rest(n) = <<>> \/ GroupMatches(Rest(n))}
        IN  IF ok = {} THEN None
            ELSE LET n == CHOOSE m \in ok : \A k \in ok : m <= k
                 IN  Some([key |-> SubSeq(body, 1, n),
                           value |-> IF Rest(n) = <<>> THEN None
                                     ELSE Some(GroupValue(Rest(n)))])

\* re.fullmatch(r"#\s+(.+?)(\s+=\s+(.*))?", line): the first \s+ is greedy
\* and gives a character back only when nothing follows it; the key is the
\* shortest prefix after which the rest is empty or matches the group.  The
\* lines that reach this function come from line splitting and strip(), so
\* they hold no line end.
_maybe_parse_metadata(ln) ==
    IF Len(ln) < 2 \/ ln[1] # "#" \/ ln[2] \notin Whitespace THEN None
    ELSE
        LET w == WsRun(ln, 2)
            body == IF 1 + w < Len(ln) THEN SubSeq(ln, 2 + w, Len(ln))
                    ELSE IF w >= 2 THEN <<ln[Len(ln)]>>
                    ELSE <<>>
            Rest(n) == SubSeq(body, n + 1, Len(body))
            ok == {n \in 1..Len(body) :
                     /\ NL \notin {body[i] : i \in 1..n}
                     /\ Rest(n) = <<>> \/ GroupMatches(Rest(n))}
        IN  IF ok = {} THEN None
            ELSE LET n == CHOOSE m \in ok : \A k \in ok : m <= k
                 IN  Some([key |-> SubSeq(body, 1, n),
                           value |-> IF Rest(n) = <<>> THEN None
                                     ELSE Some(GroupValue(Rest(n)))])

\* As _parse_token, but the line is split at spaces.
ParseTokenSplitSpace(ln) ==
    LET vals == split(ln, SP)
        n == Min(Len(_fieldnames), Len(vals))
    IN  [f \in {_fieldnames[i] : i \in 1..n} |->
            vals[CHOOSE i \in 1..n : _fieldnames[i] = f]]

\* dict(zip(_fieldnames, line.split("\t")))
_parse_token(ln) ==
    LET vals == split(ln, TAB)
        n == Min(Len(_fieldnames), Len(vals))
    IN  [f \in {_fieldnames[i] : i \in 1..n} |->
            vals[CHOOSE i \in 1..n : _fieldnames[i] = f]]

\* As DictSet, but a key that is set again moves to the end.
DictSetMoveToEnd(d, k, v) ==
    Append(SelectSeq(d, LAMBDA e : e.key # k), [key |-> k, value |-> v])

\* metadata[key] = value on an insertion-ordered dict
DictSet(d, k, v) ==
    IF \E i \in 1..Len(d) : d[i].key = k
    THEN [i \in 1..Len(d) |-> IF d[i].key = k THEN [key |-> k, value |-> v]
                              ELSE d[i]]
    ELSE Append(d, [key |-> k, value |-> v])

\* TokenList(tokens, metadata)
TokenList(toks, md) == [tokens |-> toks, metadata |-> md]

EmptyUnit == TokenList(<<>>, <<>>)

-----------------------------------------------------------------------------
(* TokenList.serialize and parse_from_string. *)

\* if value: an absent value and an empty value are both false
Truthy(v) == v # None /\ v[1] # <<>>

\* The metadata loop of serialize.
MetadataLine(e) ==
    IF Truthy(e.value) THEN <<"#", SP>> \o e.key \o <<SP, "=", SP>> \o e.value[1]
    ELSE <<"#", SP>> \o e.key

\* As TokenLine, but only the fields the token holds are written.
TokenLineSkipAbsent(tok) ==
    join(<<TAB>>, SelectSeq([i \in 1..Len(_fieldnames) |->
                               IF _fieldnames[i] \in DOMAIN tok
                               THEN <<tok[_fieldnames[i]]>> ELSE <<>>],
                            LAMBDA c : c # <<>>))

\* The token loop of serialize: token.get(key, "_") for the ten fields,
\* joined by tabs.
TokenLine(tok) ==
    join(<<TAB>>, [i \in 1..Len(_fieldnames) |->
                      IF _fieldnames[i] \in DOMAIN tok THEN tok[_fieldnames[i]]
                      ELSE <<"_">>])

\* As serialize, but a blank line closes the sentence.
SerializeWithSeparator(u) ==
    LET line_buf == [i \in 1..Len(u.metadata) |-> MetadataLine(u.metadata[i])]
                    \o [i \in 1..Len(u.tokens) |-> TokenLine(u.tokens[i])]
    IN  join(<<NL>>, line_buf) \o <<NL, NL>>

serialize(u) ==
    LET line_buf == [i \in 1..Len(u.metadata) |-> MetadataLine(u.metadata[i])]
                    \o [i \in 1..Len(u.tokens) |-> TokenLine(u.tokens[i])]
    IN  join(<<NL>>, line_buf) \o <<NL>>

\* The loop of parse_from_string over buffer.splitlines().
RECURSIVE parse_lines(_, _, _)
parse_lines(ls, md, toks) ==
    IF ls = <<>> THEN TokenList(toks, md)
    ELSE
        LET ln == strip(Head(ls))
            maybe_metadata == _maybe_parse_metadata(ln)
        IN  IF maybe_metadata # None
            THEN parse_lines(Tail(ls),
                             DictSet(md, maybe_metadata[1].key,
                                     maybe_metadata[1].value),
                             toks)
            ELSE parse_lines(Tail(ls), md, Append(toks, _parse_token(ln)))

parse_from_string(buffer) == parse_lines(splitlines(buffer), <<>>, <<>>)

-----------------------------------------------------------------------------
(* The files the streaming parser is run on. *)

MetaFlag == <<"#", SP, "k">>
MetaValued == <<"#", SP, "k", SP, "=", SP, "v">>
MetaOther == <<SP, "#", TAB, "j", SP>>
TokenRow == <<"1", TAB, "a">>
BadComment == <<"#", "x">>

Contents == {<<>>, MetaFlag, MetaValued, MetaOther, TokenRow, BadComment}

RECURSIVE SeqsUpTo(_, _)
SeqsUpTo(S, n) ==
    IF n = 0 THEN {<<>>}
    ELSE LET shorter == SeqsUpTo(S, n - 1)
         IN  shorter \cup {Append(q, x) : q \in shorter, x \in S}

\* The lines are joined by line ends: a file whose last line is empty ends
\* with a line end, any other file ends without one.
Sources == {join(<<NL>>, ls) : ls \in SeqsUpTo(Contents, MaxLines)}

-----------------------------------------------------------------------------
(* parse_from_path driving _parse_from_handle, one action per step of the   *)
(* generator, and the caller's calls between two steps.                    *)

Init ==
    /\ source \in Sources
    /\ handle = <<>>
    /\ file = "unopened"
    /\ pc = "created"
    /\ metadata = <<>>
    /\ tokens = <<>>
    /\ emitted = <<>>
    /\ unit = EmptyUnit
    /\ text = None
    /\ parsed = None
    /\ line = <<>>
    /\ token = None
    /\ aliased = 0
    /\ other = None

caller == <<unit, text, parsed, line, token, other>>

\* Leaving the with block, normally or by an exception: the file is closed.
ExitWith(f) == IF f = "open" THEN "closed" ELSE f

\* The first next(): open(path) succeeds, the accumulators are created.
Start ==
    /\ pc = "created"
    /\ file' = "open"
    /\ handle' = source
    /\ metadata' = <<>>
    /\ tokens' = <<>>
    /\ aliased' = 0
    /\ pc' = "loop"
    /\ UNCHANGED <<source, emitted, caller>>

\* The first next(): open(path) raises.
OpenFail ==
    /\ pc = "created"
    /\ pc' = "failed"
    /\ UNCHANGED <<source, handle, file, metadata, tokens, emitted, caller,
                   aliased>>

\* As BlankLine, but without the test of the accumulators.
BlankLineAlwaysYields ==
    /\ emitted' = Append(emitted, TokenList(tokens, metadata))
    /\ pc' = "yield_mid"
    /\ UNCHANGED <<metadata, tokens, aliased>>

\* As BlankLine, but the accumulators themselves are handed out, not copies:
\* TokenList copies the list of tokens and keeps the dict it is given.
BlankLineWithoutCopy ==
    IF tokens # <<>> \/ metadata # <<>>
    THEN /\ emitted' = Append(emitted, TokenList(tokens, metadata))
         /\ aliased' = Len(emitted) + 1
         /\ pc' = "yield_mid"
         /\ UNCHANGED <<metadata, tokens>>
    ELSE UNCHANGED <<emitted, pc, metadata, tokens, aliased>>

\* One turn of the for loop: a blank line.  The TokenList is built from
\* tokens.copy() and metadata.copy(), so it shares nothing with the
\* accumulators.
BlankLine ==
    IF tokens # <<>> \/ metadata # <<>>
    THEN /\ emitted' = Append(emitted, TokenList(tokens, metadata))
         /\ pc' = "yield_mid"
         /\ UNCHANGED <<metadata, tokens, aliased>>
    ELSE UNCHANGED <<emitted, pc, metadata, tokens, aliased>>

\* As ContentLine, but a token is put at the head of the list.
ContentLinePrepends(ln) ==
    LET maybe_metadata == _maybe_parse_metadata(ln)
    IN  /\ IF maybe_metadata # None
           THEN /\ metadata' = DictSet(metadata, maybe_metadata[1].key,
                                       maybe_metadata[1].value)
                /\ UNCHANGED tokens
           ELSE /\ tokens' = <<_parse_token(ln)>> \o tokens
                /\ UNCHANGED metadata
        /\ UNCHANGED <<emitted, pc, aliased>>

\* The emitted TokenLists once the dict the accumulator names holds md: a
\* TokenList that keeps that dict as its metadata attribute shows the change.
Shared(em, md) ==
    IF aliased = 0 THEN em ELSE [em EXCEPT ![aliased].metadata = md]

\* One turn of the for loop: a line that is not blank.
ContentLine(ln) ==
    LET maybe_metadata == _maybe_parse_metadata(ln)
    IN  /\ IF maybe_metadata # None
           THEN /\ metadata' = DictSet(metadata, maybe_metadata[1].key,
                                       maybe_metadata[1].value)
                /\ UNCHANGED tokens
           ELSE /\ tokens' = Append(tokens, _parse_token(ln))
                /\ UNCHANGED metadata
        /\ emitted' = Shared(emitted, metadata')
        /\ UNCHANGED <<pc, aliased>>

ReadLine ==
    /\ pc = "loop"
    /\ handle # <<>>
    /\ handle' = SubSeq(handle, Len(readline(handle)) + 1, Len(handle))
    /\ LET ln == strip(readline(handle))
       IN  IF ln = <<>> THEN BlankLine ELSE ContentLine(ln)
    /\ UNCHANGED <<source, file, caller>>

\* As ReadFail, but what was accumulated is yielded on the way out.
ReadFailFlushes ==
    /\ pc = "loop"
    /\ pc' = "failed"
    /\ file' = ExitWith(file)
    /\ handle' = <<>>
    /\ metadata' = <<>>
    /\ tokens' = <<>>
    /\ aliased' = 0
    /\ emitted' = IF tokens # <<>> \/ metadata # <<>>
                  THEN Append(emitted, TokenList(tokens, metadata))
                  ELSE emitted
    /\ UNCHANGED <<source, caller>>

\* Reading the next line raises: the exception leaves the with block and
\* ends the generator, whose frame (the accumulators) is dropped.
ReadFail ==
    /\ pc = "loop"
    /\ pc' = "failed"
    /\ file' = ExitWith(file)
    /\ handle' = <<>>
    /\ metadata' = <<>>
    /\ tokens' = <<>>
    /\ aliased' = 0
    /\ UNCHANGED <<source, emitted, caller>>

\* As Resume, but the accumulators are kept.
ResumeWithoutClear ==
    /\ pc = "yield_mid"
    /\ pc' = "loop"
    /\ UNCHANGED <<source, handle, file, metadata, tokens, emitted, caller,
                   aliased>>

\* As Resume, but only the list of tokens is cleared.
ResumeKeepsMetadata ==
    /\ pc = "yield_mid"
    /\ tokens' = <<>>
    /\ pc' = "loop"
    /\ UNCHANGED <<source, handle, file, metadata, emitted, caller, aliased>>

\* next() after the yield of the loop: both accumulators are cleared.
Resume ==
    /\ pc = "yield_mid"
    /\ metadata' = <<>>
    /\ tokens' = <<>>
    /\ emitted' = Shared(emitted, <<>>)
    /\ pc' = "loop"
    /\ UNCHANGED <<source, handle, file, caller, aliased>>

\* As EndOfInput, but what is accumulated is dropped.
EndOfInputDropsRest ==
    /\ pc = "loop"
    /\ handle = <<>>
    /\ pc' = "done"
    /\ file' = ExitWith(file)
    /\ UNCHANGED <<source, handle, metadata, tokens, emitted, caller, aliased>>

\* As EndOfInput, but without the test of the accumulators.
EndOfInputAlwaysYields ==
    /\ pc = "loop"
    /\ handle = <<>>
    /\ emitted' = Append(emitted, TokenList(tokens, metadata))
    /\ aliased' = Len(emitted) + 1
    /\ pc' = "yield_last"
    /\ UNCHANGED <<source, handle, file, metadata, tokens, caller>>

\* The loop has read the last line.  The last TokenList is built from the
\* accumulators themselves: it copies the list and keeps the dict.
EndOfInput ==
    /\ pc = "loop"
    /\ handle = <<>>
    /\ IF tokens # <<>> \/ metadata # <<>>
       THEN /\ emitted' = Append(emitted, TokenList(tokens, metadata))
            /\ aliased' = Len(emitted) + 1
            /\ pc' = "yield_last"
            /\ UNCHANGED file
       ELSE /\ pc' = "done"
            /\ file' = ExitWith(file)
            /\ UNCHANGED <<emitted, aliased>>
    /\ UNCHANGED <<source, handle, metadata, tokens, caller>>

\* next() after the last yield: the generator returns.
Finish ==
    /\ pc = "yield_last"
    /\ pc' = "done"
    /\ file' = ExitWith(file)
    /\ aliased' = 0
    /\ UNCHANGED <<source, handle, metadata, tokens, emitted, caller>>

\* As Close, but the file is left as it is.
CloseWithoutRelease ==
    /\ pc \in {"created", "yield_mid", "yield_last"}
    /\ pc' = "closed"
    /\ metadata' = <<>>
    /\ tokens' = <<>>
    /\ aliased' = 0
    /\ UNCHANGED <<source, handle, file, emitted, caller>>

\* The caller abandons the iteration: close() on the suspended generator
\* raises GeneratorExit at the yield, which leaves the with block and drops
\* the frame.
Close ==
    /\ pc \in {"created", "yield_mid", "yield_last"}
    /\ pc' = "closed"
    /\ file' = ExitWith(file)
    /\ handle' = <<>>
    /\ metadata' = <<>>
    /\ tokens' = <<>>
    /\ aliased' = 0
    /\ UNCHANGED <<source, emitted, caller>>

\* The caller serializes the TokenList it has just been given.
CallSerialize ==
    /\ pc \in {"yield_mid", "yield_last"}
    /\ unit' = emitted[Len(emitted)]
    /\ text' = Some(serialize(emitted[Len(emitted)]))
    /\ UNCHANGED <<source, handle, file, pc, metadata, tokens, emitted,
                   parsed, line, token, aliased, other>>

\* The caller parses the whole content of the file as one sentence.
CallParseFromString ==
    /\ pc = "done"
    /\ parsed = None
    /\ parsed' = Some(parse_from_string(source))
    /\ UNCHANGED <<source, handle, file, pc, metadata, tokens, emitted,
                   unit, text, line, token, aliased, other>>

Next ==
    \/ Start
    \/ OpenFail
    \/ ReadLine
    \/ ReadFail
    \/ Resume
    \/ EndOfInput
    \/ Finish
    \/ Close
    \/ CallSerialize
    \/ CallParseFromString

Spec == Init /\ [][Next]_vars

-----------------------------------------------------------------------------
(* The same iteration with a caller that changes the TokenLists it is      *)
(* given.                                                                  *)

EditKey == <<"e">>

\* unit.metadata["e"] = None; unit.append({})
Edited(u) ==
    TokenList(Append(u.tokens, <<>>), DictSet(u.metadata, EditKey, None))

IsEdited(u) == \E i \in 1..Len(u.metadata) : u.metadata[i].key = EditKey

\* Between two next() the caller changes the TokenList it has just been
\* given: a dict the accumulator also names changes with it, the list of
\* tokens is the TokenList's own.
CallerEdit ==
    /\ pc \in {"yield_mid", "yield_last"}
    /\ ~IsEdited(emitted[Len(emitted)])
    /\ emitted' = [emitted EXCEPT ![Len(emitted)] = Edited(@)]
    /\ metadata' = IF aliased = Len(emitted)
                   THEN DictSet(metadata, EditKey, None)
                   ELSE metadata
    /\ UNCHANGED <<source, handle, file, pc, tokens, caller, aliased>>

NextCaller ==
    \/ Start
    \/ ReadLine
    \/ Resume
    \/ EndOfInput
    \/ Finish
    \/ Close
    \/ CallerEdit

SpecCaller == Init /\ [][NextCaller]_vars

-----------------------------------------------------------------------------
(* Two iterations over two files, advanced by one caller in any order.  A  *)
(* generator runs only inside next(), so the caller moves from one to the  *)
(* other only while both are suspended.  The variables of the iteration    *)
(* describe the one the caller advances; the frame of the other one waits  *)
(* in other.                                                               *)

\* The locals of a generator and what it has yielded.
Frame(id) ==
    [id |-> id, source |-> source, handle |-> handle, file |-> file,
     pc |-> pc, metadata |-> metadata, tokens |-> tokens,
     emitted |-> emitted, aliased |-> aliased]

\* The frame of parse_from_path(path) before the first next().
Created(id, content) ==
    [id |-> id, source |-> content, handle |-> <<>>, file |-> "unopened",
     pc |-> "created", metadata |-> <<>>, tokens |-> <<>>,
     emitted |-> <<>>, aliased |-> 0]

\* Files of fewer lines, for the pairs of files.
PairContents == {<<>>, MetaFlag, TokenRow}

PairSources ==
    {join(<<NL>>, ls) : ls \in SeqsUpTo(PairContents, MaxLines - 1)}

OtherSources ==
    {join(<<NL>>, <<TokenRow, <<>>, MetaValued>>),
     join(<<NL>>, <<MetaFlag, BadComment>>)}

InitTwo ==
    /\ source \in PairSources
    /\ handle = <<>>
    /\ file = "unopened"
    /\ pc = "created"
    /\ metadata = <<>>
    /\ tokens = <<>>
    /\ emitted = <<>>
    /\ aliased = 0
    /\ other \in {Some(Created(2, content)) : content \in OtherSources}
    /\ unit = EmptyUnit
    /\ text = None
    /\ parsed = None
    /\ line = <<>>
    /\ token = None

\* As Switch, but the two accumulators are not part of a frame: both
\* iterations use the same two objects.
SwitchSharingAccumulators ==
    /\ pc # "loop"
    /\ other # None
    /\ other' = Some(Frame(3 - other[1].id))
    /\ source' = other[1].source
    /\ handle' = other[1].handle
    /\ file' = other[1].file
    /\ pc' = other[1].pc
    /\ emitted' = other[1].emitted
    /\ aliased' = other[1].aliased
    /\ UNCHANGED <<metadata, tokens, unit, text, parsed, line, token>>

\* The caller turns to the other iteration: the frame of the one it leaves
\* is kept as it is, and the other one goes on from its own frame.
Switch ==
    /\ pc # "loop"
    /\ other # None
    /\ other' = Some(Frame(3 - other[1].id))
    /\ source' = other[1].source
    /\ handle' = other[1].handle
    /\ file' = other[1].file
    /\ pc' = other[1].pc
    /\ metadata' = other[1].metadata
    /\ tokens' = other[1].tokens
    /\ emitted' = other[1].emitted
    /\ aliased' = other[1].aliased
    /\ UNCHANGED <<unit, text, parsed, line, token>>

NextTwo ==
    \/ Start
    \/ ReadLine
    \/ Resume
    \/ EndOfInput
    \/ Finish
    \/ Switch

SpecTwo == InitTwo /\ [][NextTwo]_vars

-----------------------------------------------------------------------------
(* serialize and parse_from_string run on TokenLists the caller builds.    *)

Letters ==
    <<"a", "b", "c", "d", "e", "f", "g", "h", "i", "j", "k", "l", "m", "n">>

\* All ten fields set, field i holding the i-th letter.
FullToken ==
    [f \in {_fieldnames[i] : i \in 1..Len(_fieldnames)} |->
        <<Letters[CHOOSE i \in 1..Len(_fieldnames) : _fieldnames[i] = f]>>]

TokenPool ==
    { <<>>,
      FullToken,
      [id |-> <<"1">>, form |-> <<"a">>],
      [form |-> <<"a">>, misc |-> <<"b">>],
      [id |-> <<SP, "1">>, form |-> <<"a">>],
      [id |-> <<"1">>, misc |-> <<>>],
      [id |-> <<"1">>, foo |-> <<"x">>] }

KeyPool == {<<"k">>, <<"j">>}
ValuePool == {None, Some(<<"v">>), Some(<<>>)}

\* The ordered dicts of at most n entries: the keys are pairwise distinct.
Dicts(n) ==
    {d \in SeqsUpTo([key : KeyPool, value : ValuePool], n) :
        \A i, j \in 1..Len(d) : d[i].key = d[j].key => i = j}

Units ==
    {TokenList(ts, md) : ts \in SeqsUpTo(TokenPool, MaxTokens),
                         md \in Dicts(MaxMeta)}

InitSerialize ==
    /\ unit \in Units
    /\ text = None
    /\ parsed = None
    /\ source = <<>>
    /\ handle = <<>>
    /\ file = "unopened"
    /\ pc = "created"
    /\ metadata = <<>>
    /\ tokens = <<>>
    /\ emitted = <<>>
    /\ line = <<>>
    /\ token = None
    /\ aliased = 0
    /\ other = None

stream == <<source, handle, file, pc, metadata, tokens, emitted, aliased,
            other>>

\* text = unit.serialize()
Serialize ==
    /\ text = None
    /\ text' = Some(serialize(unit))
    /\ UNCHANGED <<stream, unit, parsed, line, token>>

\* parsed = parse_from_string(text)
Reparse ==
    /\ text # None
    /\ parsed = None
    /\ parsed' = Some(parse_from_string(text[1]))
    /\ UNCHANGED <<stream, unit, text, line, token>>

NextSerialize ==
    \/ Serialize
    \/ Reparse

SpecSerialize == InitSerialize /\ [][NextSerialize]_vars

-----------------------------------------------------------------------------
(* _parse_token run on token lines of 1 to MaxCols columns.                *)

\* n columns, column i holding the i-th letter, but column p holding v.
Columns(n, p, v) ==
    [i \in 1..n |-> IF i = p THEN v ELSE <<Letters[((i - 1) % Len(Letters)) + 1]>>]

TokenLines ==
    {join(<<TAB>>, Columns(n, p, v)) :
        n \in 1..MaxCols, p \in 0..MaxCols, v \in {<<>>, <<"_">>, <<"#", SP, "x">>}}

InitToken ==
    /\ line \in TokenLines
    /\ token = None
    /\ unit = EmptyUnit
    /\ text = None
    /\ parsed = None
    /\ source = <<>>
    /\ handle = <<>>
    /\ file = "unopened"
    /\ pc = "created"
    /\ metadata = <<>>
    /\ tokens = <<>>
    /\ emitted = <<>>
    /\ aliased = 0
    /\ other = None

\* token = _parse_token(line)
ParseToken ==
    /\ token = None
    /\ token' = Some(_parse_token(line))
    /\ UNCHANGED <<stream, unit, text, parsed, line>>

NextToken == ParseToken

SpecToken == InitToken /\ [][NextToken]_vars

-----------------------------------------------------------------------------
(* The two parsers on the same text: the file is read to exhaustion and    *)
(* its content is given to parse_from_string.                              *)

FormFeedRow == <<"1", TAB, "a", FF, "b">>

AgreeContents == {<<>>, MetaFlag, MetaOther, TokenRow, FormFeedRow}

AgreeSources ==
    {join(<<NL>>, ls) : ls \in SeqsUpTo(AgreeContents, MaxLines)}

InitAgree ==
    /\ source \in AgreeSources
    /\ handle = <<>>
    /\ file = "unopened"
    /\ pc = "created"
    /\ metadata = <<>>
    /\ tokens = <<>>
    /\ emitted = <<>>
    /\ aliased = 0
    /\ other = None
    /\ unit = EmptyUnit
    /\ text = None
    /\ parsed = None
    /\ line = <<>>
    /\ token = None

NextAgree ==
    \/ Start
    \/ ReadLine
    \/ Resume
    \/ EndOfInput
    \/ Finish
    \/ CallParseFromString

SpecAgree == InitAgree /\ [][NextAgree]_vars

-----------------------------------------------------------------------------
(* The units read from a file are written out as a document, with a blank  *)
(* line between two units, and the document is read again.                 *)

LoneSign == <<"#">>

RoundTripContents == {<<>>, MetaFlag, MetaValued, TokenRow, LoneSign}

RoundTripSources ==
    {join(<<NL>>, ls) : ls \in SeqsUpTo(RoundTripContents, MaxLines)}

InitRoundTrip ==
    /\ source \in RoundTripSources
    /\ handle = <<>>
    /\ file = "unopened"
    /\ pc = "created"
    /\ metadata = <<>>
    /\ tokens = <<>>
    /\ emitted = <<>>
    /\ aliased = 0
    /\ other = None
    /\ unit = EmptyUnit
    /\ text = None
    /\ parsed = None
    /\ line = <<>>
    /\ token = None

\* "\n".join(unit.serialize() for unit in units)
Document(units) ==
    join(<<NL>>, [k \in 1..Len(units) |-> serialize(units[k])])

\* The caller keeps the exhausted iteration and starts one over the document
\* of the units it yielded.
Rerun ==
    /\ pc = "done"
    /\ other = None
    /\ other' = Some(Frame(1))
    /\ source' = Document(emitted)
    /\ handle' = <<>>
    /\ file' = "unopened"
    /\ pc' = "created"
    /\ metadata' = <<>>
    /\ tokens' = <<>>
    /\ emitted' = <<>>
    /\ aliased' = 0
    /\ UNCHANGED <<unit, text, parsed, line, token>>

NextRoundTrip ==
    \/ Start
    \/ ReadLine
    \/ Resume
    \/ EndOfInput
    \/ Finish
    \/ Rerun

SpecRoundTrip == InitRoundTrip /\ [][NextRoundTrip]_vars

-----------------------------------------------------------------------------
(* A comment line parsed, the unit serialized and the text parsed again.   *)

CommentChars == {"#", "x", SP, TAB, "="}

\* The lines that start with "#" and have no whitespace at either end.
CommentLines ==
    {l \in SeqsUpTo(CommentChars, MaxLineLen) :
        l # <<>> /\ l[1] = "#" /\ strip(l) = l}

InitReparse ==
    /\ line \in CommentLines
    /\ unit = EmptyUnit
    /\ text = None
    /\ parsed = None
    /\ token = None
    /\ source = <<>>
    /\ handle = <<>>
    /\ file = "unopened"
    /\ pc = "created"
    /\ metadata = <<>>
    /\ tokens = <<>>
    /\ emitted = <<>>
    /\ aliased = 0
    /\ other = None

\* parsed = parse_from_string(line)
ParseBuffer ==
    /\ parsed = None
    /\ text = None
    /\ parsed' = Some(parse_from_string(line))
    /\ UNCHANGED <<stream, unit, text, line, token>>

\* unit = parsed; text = unit.serialize()
SerializeParsed ==
    /\ parsed # None
    /\ text = None
    /\ unit' = parsed[1]
    /\ text' = Some(serialize(parsed[1]))
    /\ parsed' = None
    /\ UNCHANGED <<stream, line, token>>

NextReparse ==
    \/ ParseBuffer
    \/ SerializeParsed
    \/ Reparse

SpecReparse == InitReparse /\ [][NextReparse]_vars

-----------------------------------------------------------------------------
(* Vocabulary of the properties. *)

\* The canonical order of the ten columns.
Schema ==
    <<"id", "form", "lemma", "upos", "xpos", "feats", "head", "deprel",
      "deps", "misc">>

SchemaFields == {Schema[i] : i \in 1..Len(Schema)}

NoTabNewline(s) == \A i \in 1..Len(s) : s[i] \notin {TAB, NL}

\* The value of field f, an absent field reading as the placeholder.
FieldOr(tok, f) == IF f \in DOMAIN tok THEN tok[f] ELSE <<"_">>

SameFields(t1, t2) == \A f \in SchemaFields : FieldOr(t1, f) = FieldOr(t2, f)

\* Only schema fields, and no tab or line end in any value or key.
InContract(u) ==
    /\ \A i \in 1..Len(u.tokens) :
          /\ DOMAIN u.tokens[i] \subseteq SchemaFields
          /\ \A f \in DOMAIN u.tokens[i] : NoTabNewline(u.tokens[i][f])
    /\ \A i \in 1..Len(u.metadata) :
          /\ NoTabNewline(u.metadata[i].key)
          /\ u.metadata[i].value # None => NoTabNewline(u.metadata[i].value[1])

TabsOf(s) == {i \in 1..Len(s) : s[i] = TAB}

\* Index of the k-th tab of s; 0 before the first, Len(s) + 1 after the last.
TabAt(s, k) ==
    IF k = 0 THEN 0
    ELSE IF k > Cardinality(TabsOf(s)) THEN Len(s) + 1
    ELSE CHOOSE i \in TabsOf(s) : Cardinality({x \in TabsOf(s) : x <= i}) = k

\* The k-th of the values the tabs of s separate.
NthValue(s, k) == SubSeq(s, TabAt(s, k - 1) + 1, TabAt(s, k) - 1)

\* The lines of a text, line ends dropped.
LinesOf(s) == splitlines(s)

IsBlank(l) == \A i \in 1..Len(l) : l[i] \in Whitespace

AllBlank(s) == \A i \in 1..Len(s) : s[i] \in Whitespace

\* The k-th smallest member of a set of numbers.
Nth(S, k) == CHOOSE i \in S : Cardinality({x \in S : x <= i}) = k

\* The members of ls at the indexes in keep, in order.
Pick(ls, keep) == [k \in 1..Cardinality(keep) |-> ls[Nth(keep, k)]]

\* The runs of lines that the blank lines of ls separate; a run may be empty.
RECURSIVE SplitAtBlank(_)
SplitAtBlank(ls) ==
    LET blanks == {i \in 1..Len(ls) : IsBlank(ls[i])}
    IN  IF blanks = {} THEN <<ls>>
        ELSE <<SubSeq(ls, 1, Nth(blanks, 1) - 1)>>
             \o SplitAtBlank(SubSeq(ls, Nth(blanks, 1) + 1, Len(ls)))

\* The sentences of ls when single blank lines separate non-empty sentences.
SentencesOf(ls) == IF ls = <<>> THEN <<>> ELSE SplitAtBlank(ls)

WellSeparated(ls) ==
    \A k \in 1..Len(SentencesOf(ls)) : SentencesOf(ls)[k] # <<>>

\* ls without its leading blank lines, its trailing blank lines and every
\* blank line that follows a blank line.
Collapse(ls) ==
    Pick(ls, {i \in 1..Len(ls) :
                \/ ~IsBlank(ls[i])
                \/ /\ i > 1
                   /\ ~IsBlank(ls[i - 1])
                   /\ \E j \in (i + 1)..Len(ls) : ~IsBlank(ls[j])})

\* The line matches "#", whitespace, key, and then nothing or whitespace,
\* "=", whitespace, value.
MatchesPattern(l) ==
    /\ Len(l) >= 3
    /\ l[1] = "#"
    /\ \E a \in 2..(Len(l) - 1), b \in 3..Len(l) :
          /\ a < b
          /\ \A i \in 2..a : l[i] \in Whitespace
          /\ \/ b = Len(l)
             \/ \E c \in (b + 1)..Len(l), d \in (b + 2)..Len(l) :
                   /\ c + 1 < d
                   /\ \A i \in (b + 1)..c : l[i] \in Whitespace
                   /\ l[c + 1] = "="
                   /\ \A i \in (c + 2)..d : l[i] \in Whitespace

MalformedComment(l) == l # <<>> /\ l[1] = "#" /\ ~MatchesPattern(l)

\* Key and value of a metadata line.
KeyOf(l) == _maybe_parse_metadata(strip(l))[1].key
ValueOf(l) == _maybe_parse_metadata(strip(l))[1].value
IsMetadata(l) == _maybe_parse_metadata(strip(l)) # None

\* The unit that holds exactly the lines of the sentence run: a token per
\* token line, a metadata entry per key, placed where the key comes first
\* and holding the value that comes last.
ExpectedUnit(run) ==
    LET meta == {i \in 1..Len(run) : IsMetadata(run[i])}
        toks == (1..Len(run)) \ meta
        firsts == {i \in meta : \A j \in meta : j < i => KeyOf(run[j]) # KeyOf(run[i])}
        Last(i) == CHOOSE j \in meta :
                      /\ KeyOf(run[j]) = KeyOf(run[i])
                      /\ \A k \in meta : KeyOf(run[k]) = KeyOf(run[i]) => k <= j
    IN  TokenList([n \in 1..Cardinality(toks) |->
                      _parse_token(strip(run[Nth(toks, n)]))],
                  [n \in 1..Cardinality(firsts) |->
                      [key |-> KeyOf(run[Nth(firsts, n)]),
                       value |-> ValueOf(run[Last(Nth(firsts, n))])]])

\* Number of tokens in a sequence of units.
RECURSIVE TokenCount(_)
TokenCount(us) ==
    IF us = <<>> THEN 0 ELSE Len(us[1].tokens) + TokenCount(Tail(us))

MetadataKeys(us) ==
    UNION {{us[k].metadata[i].key : i \in 1..Len(us[k].metadata)} :
             k \in 1..Len(us)}

-----------------------------------------------------------------------------
(* Properties. *)

\* C1: round trip.  For every unit whose tokens use only the ten schema
\* fields and whose values and keys hold no tab or newline,
\* parse_from_string(unit.serialize()) has as many tokens as the unit, each
\* with the same ten field values (an absent field reading as "_"), and the
\* same metadata entries in the same order.
C1_RoundTrip ==
    (parsed # None /\ InContract(unit)) =>
        /\ Len(parsed[1].tokens) = Len(unit.tokens)
        /\ \A i \in 1..Len(unit.tokens) :
              SameFields(parsed[1].tokens[i], unit.tokens[i])
        /\ parsed[1].metadata = unit.metadata

\* C6: a token line whose tab-split gives n values parses to a Token that
\* maps exactly the first min(n, 10) schema fields, in canonical order, to
\* the first min(n, 10) values; nothing else is in the Token.
C6_TokenLineParsing ==
    token # None =>
        LET n == Cardinality(TabsOf(line)) + 1
            m == IF n < 10 THEN n ELSE 10
        IN  /\ DOMAIN token[1] = {Schema[i] : i \in 1..m}
            /\ \A i \in 1..m : token[1][Schema[i]] = NthValue(line, i)

\* C6 witness: a line of eleven values has been parsed.
C6_Witness ==
    /\ token # None
    /\ Cardinality(TabsOf(line)) = 10
    /\ NthValue(line, 11) # <<>>

\* C7: serialize writes one line per token, in the order of the tokens,
\* after the metadata lines; each is ten tab-separated columns, column i
\* holding the token's value of schema field i, or "_" when it has none.
C7_TokenSerialization ==
    text # None =>
        LET ls == splitlines(text[1])
            m == Len(unit.metadata)
            t == Len(unit.tokens)
        IN  /\ t > 0 => Len(ls) = m + t
            /\ \A i \in 1..t :
                  /\ Cardinality(TabsOf(ls[m + i])) = 9
                  /\ \A j \in 1..10 :
                        NthValue(ls[m + i], j) = FieldOr(unit.tokens[i], Schema[j])

\* C7 witness: a unit of two tokens, one with a field outside the schema and
\* absent fields, has been serialized after a metadata line.
C7_Witness ==
    /\ text # None
    /\ Len(unit.metadata) = 1
    /\ unit.tokens = <<[id |-> <<"1">>, foo |-> <<"x">>], FullToken>>


\* C2: streaming count.  A file of N >= 0 non-empty sentences separated by
\* single blank lines yields, iterated to its end, exactly N units, the
\* k-th holding exactly the lines of the k-th sentence.
C2_StreamingCount ==
    pc = "done" =>
        LET sentences == SentencesOf(LinesOf(source))
        IN  (\A k \in 1..Len(sentences) : sentences[k] # <<>>) =>
                /\ Len(emitted) = Len(sentences)
                /\ \A k \in 1..Len(emitted) :
                      emitted[k] = ExpectedUnit(sentences[k])

\* C2 witness: two sentences separated by one blank line have been read to
\* the end, the first with metadata and a token.
C2_Witness ==
    /\ pc = "done"
    /\ WellSeparated(LinesOf(source))
    /\ Len(SentencesOf(LinesOf(source))) = 2
    /\ Len(emitted) = 2
    /\ emitted[1].metadata # <<>>
    /\ emitted[1].tokens # <<>>

\* C3: no trailing blank line.  When the file ends with something
\* accumulated, the step that meets the end emits exactly one unit holding
\* it, and the step after that ends the iteration emitting nothing; when it
\* ends with nothing accumulated the iteration ends emitting nothing.  After
\* exhaustion every token line and every metadata key of the file is in an
\* emitted unit.
C3_NoTrailingBlankLine ==
    /\ [][/\ (pc = "loop" /\ handle = <<>> /\ pc' # "failed") =>
                IF tokens # <<>> \/ metadata # <<>>
                THEN /\ emitted' = Append(emitted, TokenList(tokens, metadata))
                     /\ pc' = "yield_last"
                ELSE /\ emitted' = emitted
                     /\ pc' = "done"
          /\ (pc = "yield_last" /\ pc' # pc) =>
                /\ emitted' = emitted
                /\ pc' \in {"done", "closed"}]_vars
    /\ [](pc = "done" =>
            LET ls == LinesOf(source)
            IN  /\ TokenCount(emitted) =
                      Cardinality({i \in 1..Len(ls) :
                                     ~IsBlank(ls[i]) /\ ~IsMetadata(ls[i])})
                /\ MetadataKeys(emitted) =
                      {KeyOf(ls[i]) : i \in {j \in 1..Len(ls) : IsMetadata(ls[j])}})

\* C3 witness: a file that ends right after a token line has been read to
\* the end and its last sentence emitted.
C3_Witness ==
    /\ pc = "done"
    /\ source # <<>>
    /\ source[Len(source)] \notin Whitespace
    /\ ~IsMetadata(LinesOf(source)[Len(LinesOf(source))])
    /\ emitted # <<>>
    /\ emitted[Len(emitted)].tokens # <<>>

\* C4: blank-line collapsing.  A file yields the units of the file with its
\* leading, trailing and repeated blank lines removed; a blank line met with
\* both accumulators empty changes nothing; no emitted unit is empty.
C4_BlankLineCollapsing ==
    /\ [](pc = "done" =>
            LET sentences == SentencesOf(Collapse(LinesOf(source)))
            IN  /\ Len(emitted) = Len(sentences)
                /\ \A k \in 1..Len(emitted) :
                      emitted[k] = ExpectedUnit(sentences[k]))
    /\ [](\A k \in 1..Len(emitted) :
            emitted[k].tokens # <<>> \/ emitted[k].metadata # <<>>)
    /\ [][(/\ pc = "loop"
           /\ handle # <<>>
           /\ IsBlank(readline(handle))
           /\ tokens = <<>>
           /\ metadata = <<>>
           /\ pc' # "failed") =>
              UNCHANGED <<metadata, tokens, emitted, pc>>]_vars

\* C4 witness: a file with two blank lines between two sentences has been
\* read to the end.
C4_Witness ==
    /\ pc = "done"
    /\ Len(LinesOf(source)) = 4
    /\ IsBlank(LinesOf(source)[2])
    /\ IsBlank(LinesOf(source)[3])
    /\ Len(emitted) = 2

\* C5: empty input.  A file of zero lines, or of blank lines only, yields
\* no unit; the step that meets its end ends the iteration.
C5_EmptyInput ==
    /\ [](AllBlank(source) =>
            /\ emitted = <<>>
            /\ pc \in {"created", "loop", "done", "closed", "failed"})
    /\ [][(AllBlank(source) /\ pc = "loop" /\ handle = <<>> /\ pc' # "failed") =>
              pc' = "done"]_vars

\* C5 witness: the empty file has been read to the end.
C5_Witness ==
    /\ pc = "done"
    /\ source = <<>>
    /\ emitted = <<>>

\* C8: metadata order and overwrite.  The metadata of a unit, when it is
\* emitted, holds each key of the metadata lines of its sentence once, the
\* keys in the order of their first lines, each with the value of its last
\* line; the first lines serialize writes are "# key = value" for an entry
\* with a value and "# key" for one without, in that order.
C8_MetadataOrder ==
    /\ pc \in {"yield_mid", "yield_last"} =>
          LET run == SentencesOf(Collapse(LinesOf(source)))[Len(emitted)]
              md == emitted[Len(emitted)].metadata
              meta == {i \in 1..Len(run) : IsMetadata(run[i])}
              keys == [i \in meta |-> KeyOf(run[i])]
              First(key) == CHOOSE i \in meta :
                              keys[i] = key /\ \A j \in meta : keys[j] = key => i <= j
              Last(key) == CHOOSE i \in meta :
                             keys[i] = key /\ \A j \in meta : keys[j] = key => j <= i
          IN  /\ {md[n].key : n \in 1..Len(md)} = {keys[i] : i \in meta}
              /\ \A n1, n2 \in 1..Len(md) :
                    n1 < n2 => First(md[n1].key) < First(md[n2].key)
              /\ \A n \in 1..Len(md) : md[n].value = ValueOf(run[Last(md[n].key)])
    /\ text # None =>
          LET ls == splitlines(text[1])
          IN  /\ Len(ls) >= Len(unit.metadata)
              /\ \A n \in 1..Len(unit.metadata) :
                    ls[n] = IF unit.metadata[n].value # None
                            THEN <<"#", SP>> \o unit.metadata[n].key
                                 \o <<SP, "=", SP>> \o unit.metadata[n].value[1]
                            ELSE <<"#", SP>> \o unit.metadata[n].key

\* C8 witness: a sentence that sets key k, then key j, then key k again has
\* been emitted and serialized.
C8_Witness ==
    /\ text # None
    /\ Len(LinesOf(source)) >= 3
    /\ SubSeq(LinesOf(source), 1, 3) = <<MetaFlag, MetaOther, MetaValued>>
    /\ unit = emitted[1]
    /\ Len(unit.metadata) = 2

\* C9: tolerant degrade.  A line that starts with "#" and does not match
\* the metadata pattern is appended to the tokens as a token line by the
\* streaming parser, and parse_from_string returns one token for each such
\* line of its buffer.
C9_TolerantDegrade ==
    /\ [][(/\ pc = "loop"
           /\ handle # <<>>
           /\ MalformedComment(strip(readline(handle)))
           /\ pc' # "failed") =>
              /\ tokens' = Append(tokens, _parse_token(strip(readline(handle))))
              /\ UNCHANGED <<metadata, emitted, pc>>]_vars
    /\ [](parsed # None =>
            LET ls == LinesOf(source)
                bad == {i \in 1..Len(ls) : MalformedComment(strip(ls[i]))}
                toks == parsed[1].tokens
            IN  \A i \in bad :
                   Cardinality({n \in 1..Len(toks) :
                                  toks[n] = _parse_token(strip(ls[i]))})
                   = Cardinality({j \in bad : strip(ls[j]) = strip(ls[i])}))

\* C9 witness: a file whose second line is a malformed comment has been read
\* by both parsers.
C9_Witness ==
    /\ pc = "done"
    /\ parsed # None
    /\ LinesOf(source) = <<MetaFlag, BadComment>>
    /\ Len(emitted) = 1
    /\ Len(emitted[1].tokens) = 1

\* C10: scoped file.  The file is open while the iteration is in progress
\* and is not open once the iteration has ended, whether by exhaustion, by
\* the caller closing it or by a failure.
C10_ScopedFile ==
    /\ pc \in {"loop", "yield_mid", "yield_last"} => file = "open"
    /\ pc \in {"done", "closed", "failed"} => file # "open"

\* C10 witness: the caller has closed the iteration after the first unit of
\* a file of two sentences.
C10_Witness ==
    /\ pc = "closed"
    /\ file = "closed"
    /\ Len(emitted) = 1
    /\ Len(SentencesOf(Collapse(LinesOf(source)))) = 2

\* C11: an emitted snapshot is final.  No step of the assembler (reading a
\* line, clearing the accumulators, emitting a unit, ending, being closed)
\* changes a unit that was emitted before the step; and whatever the caller
\* has done to the units it was given, a unit is emitted holding exactly the
\* lines of its own sentence.
C11_SnapshotFinal ==
    /\ [][(pc' # pc \/ handle' # handle) =>
             /\ Len(emitted') >= Len(emitted)
             /\ \A k \in 1..Len(emitted) : emitted'[k] = emitted[k]]_vars
    /\ [][Len(emitted') = Len(emitted) + 1 =>
             emitted'[Len(emitted')] =
                 ExpectedUnit(SentencesOf(Collapse(LinesOf(source)))
                                 [Len(emitted')])]_vars

\* C11 witness: the caller has changed the first unit of a file of two
\* sentences, the assembler has gone on and emitted the second.
C11_Witness ==
    /\ pc = "yield_last"
    /\ Len(emitted) = 2
    /\ IsEdited(emitted[1])
    /\ Len(emitted[1].metadata) = 2
    /\ ~IsEdited(emitted[2])

\* C12: no carry-over between sentences.  The step that follows the emit at
\* a blank line leaves both accumulators empty, and whenever the loop is
\* about to read a line the accumulators hold exactly the metadata entries
\* and the tokens of the lines read since the last blank line (or since the
\* start of the input), so nothing of an earlier sentence is in them.
C12_NoCarryOver ==
    /\ [](pc = "loop" =>
            LET read == SubSeq(source, 1, Len(source) - Len(handle))
                runs == SplitAtBlank(LinesOf(read))
            IN  TokenList(tokens, metadata) = ExpectedUnit(runs[Len(runs)]))
    /\ [][(pc = "yield_mid" /\ pc' = "loop") =>
             (metadata' = <<>> /\ tokens' = <<>>)]_vars

\* C12 witness: the first sentence, which had metadata, has been emitted and
\* the loop holds a token of the second sentence and no metadata.
C12_Witness ==
    /\ pc = "loop"
    /\ Len(emitted) = 1
    /\ emitted[1].metadata # <<>>
    /\ tokens # <<>>
    /\ metadata = <<>>

\* The tokens of the units us, one unit after the other.
RECURSIVE AllTokens(_)
AllTokens(us) ==
    IF us = <<>> THEN <<>> ELSE us[1].tokens \o AllTokens(Tail(us))

\* The tokens of the token lines of ls, in line order.
TokensOfLines(ls) ==
    LET rows == {i \in 1..Len(ls) : ~IsBlank(ls[i]) /\ ~IsMetadata(ls[i])}
    IN  [n \in 1..Cardinality(rows) |-> _parse_token(strip(ls[Nth(rows, n)]))]

IsPrefix(s, t) == Len(s) <= Len(t) /\ s = SubSeq(t, 1, Len(s))

\* C13: source order is preserved.  Units are only ever added at the end of
\* what was emitted; whenever one is added, the tokens of the units emitted
\* so far, in emission order, are the first token lines of the source in
\* line order; and when the iteration is exhausted they are all the token
\* lines of the source, none lost, duplicated or reordered.
C13_SourceOrder ==
    /\ [][emitted' # emitted =>
             /\ IsPrefix(emitted, emitted')
             /\ IsPrefix(AllTokens(emitted'), TokensOfLines(LinesOf(source)))]_vars
    /\ [](pc = "done" =>
            AllTokens(emitted) = TokensOfLines(LinesOf(source)))

\* C13 witness: a file of two sentences with two different token lines in
\* the first and one in the second has been read to the end.
C13_Witness ==
    /\ pc = "done"
    /\ Len(emitted) = 2
    /\ Len(emitted[1].tokens) = 2
    /\ emitted[1].tokens[1] # emitted[1].tokens[2]
    /\ Len(emitted[2].tokens) = 1

\* The units an iteration over the file content yields when it runs alone.
Alone(content) ==
    LET sentences == SentencesOf(Collapse(LinesOf(content)))
    IN  [k \in 1..Len(sentences) |-> ExpectedUnit(sentences[k])]

\* C14: independent invocations.  However the caller interleaves the next()
\* requests of two iterations, each has at every moment yielded the first
\* units of what it yields alone and, once exhausted, all of them; a step of
\* one iteration leaves the frame of the other as it was, and the caller
\* turning to the other iteration hands each its own accumulators back.
C14_Independent ==
    /\ [](other # None =>
            /\ IsPrefix(emitted, Alone(source))
            /\ IsPrefix(other[1].emitted, Alone(other[1].source))
            /\ pc = "done" => emitted = Alone(source)
            /\ other[1].pc = "done" =>
                  other[1].emitted = Alone(other[1].source))
    /\ [][(other # None /\ other' # None) =>
             IF other'[1].id = other[1].id
             THEN other' = other
             ELSE /\ metadata' = other[1].metadata
                  /\ tokens' = other[1].tokens
                  /\ other'[1].metadata = metadata
                  /\ other'[1].tokens = tokens]_vars

\* C14 witness: both iterations are exhausted, each after two units, and
\* the two did not yield the same units.
C14_Witness ==
    /\ other # None
    /\ pc = "done"
    /\ other[1].pc = "done"
    /\ Len(emitted) = 2
    /\ Len(other[1].emitted) = 2
    /\ emitted # other[1].emitted

\* C15: an I/O failure leaves no partial unit.  The step at which reading
\* fails ends the iteration and emits nothing, so what was accumulated since
\* the last emit is not emitted; after the failure the iteration stays
\* failed and emits nothing more; and the units emitted before the failure
\* are the first sentences of the file, each complete.
C15_FailureLeavesNoPartial ==
    /\ [][(pc = "loop" /\ pc' = "failed") => emitted' = emitted]_vars
    /\ [][pc = "failed" => (pc' = "failed" /\ emitted' = emitted)]_vars
    /\ [](pc = "failed" => IsPrefix(emitted, Alone(source)))

\* C15 witness: reading has failed after the first unit of a file whose
\* second sentence has two lines, which were never emitted.
C15_Witness ==
    /\ pc = "failed"
    /\ Len(emitted) = 1
    /\ LET sentences == SentencesOf(Collapse(LinesOf(source)))
       IN  Len(sentences) = 2 /\ Len(sentences[2]) = 2

NewlinesOf(s) == {i \in 1..Len(s) : s[i] = NL}

\* The k-th line of a text whose lines all end with a newline, without it.
TextLine(s, k) ==
    SubSeq(s, (IF k = 1 THEN 0 ELSE Nth(NewlinesOf(s), k - 1)) + 1,
              Nth(NewlinesOf(s), k) - 1)

\* No key and no value of the unit holds a newline.
NoNewline(u) ==
    /\ \A i \in 1..Len(u.tokens) : \A f \in DOMAIN u.tokens[i] :
          NL \notin {u.tokens[i][f][j] : j \in 1..Len(u.tokens[i][f])}
    /\ \A i \in 1..Len(u.metadata) :
          /\ NL \notin {u.metadata[i].key[j] : j \in 1..Len(u.metadata[i].key)}
          /\ u.metadata[i].value # None =>
                NL \notin {u.metadata[i].value[1][j] :
                             j \in 1..Len(u.metadata[i].value[1])}

\* The text has n lines, each ended by a newline and none empty; the first m
\* are the comments of the keys of md in order, the others hold at least
\* nine tabs.
HasShape(s, md, n) ==
    /\ Cardinality(NewlinesOf(s)) = n
    /\ s # <<>> /\ s[Len(s)] = NL
    /\ \A k \in 1..n : TextLine(s, k) # <<>>
    /\ \A k \in 1..Len(md) :
          IsPrefix(<<"#", SP>> \o md[k].key, TextLine(s, k))
    /\ \A k \in (Len(md) + 1)..n :
          Cardinality(TabsOf(TextLine(s, k))) >= Len(_fieldnames) - 1

\* C16 as stated: the output of serialize has exactly m + t lines for every
\* unit, the empty one included, and no blank line.
C16_ShapeOfEveryUnit ==
    (text # None /\ NoNewline(unit)) =>
        HasShape(text[1], unit.metadata, Len(unit.metadata) + Len(unit.tokens))

\* C16: serializer output shape.  For every unit with m metadata entries
\* and t tokens, m + t >= 1, whose keys and values hold no newline,
\* serialize returns exactly m + t lines, the m metadata lines first and
\* the t token lines after, each ended by a newline and none empty.  For the
\* unit with no metadata and no token it returns a lone newline, which is
\* one empty line.
C16_SerializeShape ==
    (text # None /\ NoNewline(unit)) =>
        IF unit.metadata = <<>> /\ unit.tokens = <<>>
        THEN text[1] = <<NL>>
        ELSE HasShape(text[1], unit.metadata,
                      Len(unit.metadata) + Len(unit.tokens))

\* C16 witness: a unit with two metadata entries and two tokens has been
\* serialized.
C16_Witness ==
    /\ text # None
    /\ Len(unit.metadata) = 2
    /\ Len(unit.tokens) = 2
    /\ Cardinality(NewlinesOf(text[1])) = 4

\* C17: whole-buffer line classification.  The unit parse_from_string
\* returns has as many tokens as the buffer has lines that are not blank
\* after trimming and do not match the metadata pattern, so a blank line of
\* the buffer gives no token.
C17_LineClassification ==
    parsed # None =>
        LET ls == LinesOf(source)
        IN  Len(parsed[1].tokens) =
                Cardinality({i \in 1..Len(ls) :
                               /\ ~IsBlank(ls[i])
                               /\ ~MatchesPattern(strip(ls[i]))})

\* C18: malformed comment on re-parse.  For every line that starts with "#"
\* and fails the metadata pattern, parsing it gives one token and no
\* metadata, and parsing the serialization of that unit gives again one
\* token and no metadata.
C18_MalformedReparse ==
    MalformedComment(line) =>
        /\ (parsed # None /\ text = None) =>
              (Len(parsed[1].tokens) = 1 /\ parsed[1].metadata = <<>>)
        /\ (parsed # None /\ text # None) =>
              (Len(parsed[1].tokens) = 1 /\ parsed[1].metadata = <<>>)

\* The lines of a file: only a newline ends one.
FileLines(s) ==
    IF s = <<>> THEN <<>>
    ELSE IF s[Len(s)] = NL THEN split(SubSeq(s, 1, Len(s) - 1), NL)
    ELSE split(s, NL)

\* C19: the two parsers agree on a single sentence.  For every text with at
\* least one line and no line that is blank after trimming, the streaming
\* assembler run over the text to exhaustion has emitted exactly one unit,
\* and it is the unit parse_from_string returns for the text: the same
\* tokens in the same order and the same metadata entries in the same order.
C19_ParsersAgree ==
    (pc = "done" /\ parsed # None) =>
        LET ls == FileLines(source)
            pieces == splitlines(source)
        IN  (/\ ls # <<>>
             /\ \A i \in 1..Len(ls) : ~IsBlank(ls[i])
             /\ \A i \in 1..Len(pieces) : ~IsBlank(pieces[i])) =>
                emitted = <<parsed[1]>>

\* C20: multi-sentence round trip.  When the units the streaming assembler
\* emitted from a source are serialized and joined with one blank line
\* between two units, the streaming assembler run over that text to
\* exhaustion has emitted as many units, each with the same metadata entries
\* in the same order and tokens with the same field values, an absent field
\* read as "_".
C20_DocumentRoundTrip ==
    (pc = "done" /\ other # None) =>
        LET first == other[1].emitted
        IN  /\ Len(emitted) = Len(first)
            /\ \A k \in 1..Len(emitted) :
                  /\ emitted[k].metadata = first[k].metadata
                  /\ Len(emitted[k].tokens) = Len(first[k].tokens)
                  /\ \A n \in 1..Len(emitted[k].tokens) :
                        SameFields(emitted[k].tokens[n], first[k].tokens[n])

====
